---- MODULE Spec2Model ----
(***************************************************************************)
(* TextFinder (src/textfinder.js): whitespace-insensitive text search in   *)
(* a DOM tree.  The constructor flattens the text nodes below a root       *)
(* element into one string and a table of cumulative offsets; find builds  *)
(* a regular expression from the phrase, scans the flattened text and maps *)
(* every match back to (text node, local offset) pairs.                    *)
(*                                                                         *)
(* Strings are sequences of one-character strings.  Indices into the       *)
(* flattened text are 0-based as in the source; sequence indices are       *)
(* 1-based, so the character at source index i is text[i + 1].             *)
(***************************************************************************)
EXTENDS Integers, Sequences, FiniteSets, TLC

\* ------------------------------------------------------------------ bounds
\* Longest flattened text of the trees of Init and InitMut.
MaxTextLen == 3
\* Longest flattened text of the trees of InitWS.
MaxWsTextLen == 4
\* Longest phrase over PhraseAlphabet passed to find.
MaxPhraseLen == 3
\* Number of DOM mutations the environment performs after construction.
MaxMutations == 1

\* -------------------------------------------------------------- characters
SP == " "
\* U+00A0, the non-breaking space.
NBSP == "nbsp"
\* U+0A00, the code point written in the character classes of line 65.
U0A00 == "u0A00"
BSL == "\\"
DOT == "."
\* The separator text '[\\s\\u00A0]+' of line 66, kept as one atom of the
\* pattern source.
JOINER == "[\\s\\u00A0]+"

\* The characters \s matches (ECMAScript WhiteSpace, which contains U+00A0),
\* restricted to the characters of the model.
WhiteSpaceS == {SP, NBSP}
\* [\s\u0A00], the class of the two regular expressions of lines 65-66.
StripClass == WhiteSpaceS \cup {U0A00}
\* The joined class written as \s alone, in a browser whose \s leaves U+00A0
\* out (the case the comment of lines 61-62 is about).
JoinClassNoNbsp == {SP}
\* [\s\u00A0], the class the joined pattern matches in the text.
JoinClass == WhiteSpaceS \cup {NBSP}
\* The characters of the class of line 51.
Reserved == {"?", "!", "^", "$", ".", "(", ")", "{", "}", ":", "|", "=",
             "[", "]", "+", "-", "/", "\\", "*"}

StringsUpTo(S, n) == UNION {[1..k -> S] : k \in 0..n}

\* ------------------------------------------------------------ the DOM tree
\* root
\*  |- t1            text
\*  |- e2            element
\*  |   |- t3        text
\*  |   `- e4        element
\*  |       `- t5    text
\*  `- e6            element without children
rootContainer == "root"
TextNodeIds == {"t1", "t3", "t5"}
ElementIds == {"root", "e2", "e4", "e6"}
childNodes == [n \in ElementIds |->
                 CASE n = "root" -> <<"t1", "e2", "e6">>
                   [] n = "e2" -> <<"t3", "e4">>
                   [] n = "e4" -> <<"t5">>
                   [] OTHER -> <<>>]
\* node.nodeType == node.TEXT_NODE
IsTextNode(n) == n \in TextNodeIds
hasChildNodes(n) == Len(childNodes[n]) > 0

VARIABLES
    nodeValue,     \* DOM: text node -> its current nodeValue
    offsetWidth,   \* DOM: element -> its offsetWidth (0 when not rendered)
    text,          \* this.text
    textNodes,     \* this.textNodes
    pc,            \* "idle" | "loop" | "done" | "thrown": position of find
    searchText,    \* find: argument
    flags,         \* find: 'g' or 'gi'
    regexp,        \* find: source of the regular expression
    lastIndex,     \* find: regexp.lastIndex
    lastMatch,     \* find: result of the last regexp.exec
    ranges,        \* find: the array being built and returned
    calls,         \* history: the (start, end) of every computeRange call
    mutations      \* number of DOM mutations since construction

vars == <<nodeValue, offsetWidth, text, textNodes, pc, searchText, flags,
          regexp, lastIndex, lastMatch, ranges, calls, mutations>>

\* ------------------------------------------------------- collectTextNodes
RECURSIVE collectNodesAll(_, _, _, _, _)
\* collect without the offsetWidth test of line 97.
collectNodesAll(nv, ow, nodes, i, acc) ==
    IF i > Len(nodes) THEN acc
    ELSE LET node == nodes[i]
             value == nv[node]
             str2 == acc.str \o value
         IN IF IsTextNode(node)
            THEN IF value # <<>>
                 THEN collectNodesAll(nv, ow, nodes, i + 1,
                        [str |-> str2,
                         textNodes |-> Append(acc.textNodes,
                            [node |-> node, characterInterval |-> Len(str2)])])
                 ELSE collectNodesAll(nv, ow, nodes, i + 1, acc)
            ELSE IF hasChildNodes(node)
                 THEN collectNodesAll(nv, ow, nodes, i + 1,
                        collectNodesAll(nv, ow, childNodes[node], 1, acc))
                 ELSE collectNodesAll(nv, ow, nodes, i + 1, acc)

RECURSIVE collectNodesEmpty(_, _, _, _, _)
\* collect without the test of line 90: empty text nodes are recorded too.
collectNodesEmpty(nv, ow, nodes, i, acc) ==
    IF i > Len(nodes) THEN acc
    ELSE LET node == nodes[i]
             value == nv[node]
             str2 == acc.str \o value
         IN IF IsTextNode(node)
            THEN collectNodesEmpty(nv, ow, nodes, i + 1,
                        [str |-> str2,
                         textNodes |-> Append(acc.textNodes,
                            [node |-> node, characterInterval |-> Len(str2)])])
            ELSE IF hasChildNodes(node) /\ ow[node] # 0
                 THEN collectNodesEmpty(nv, ow, nodes, i + 1,
                        collectNodesEmpty(nv, ow, childNodes[node], 1, acc))
                 ELSE collectNodesEmpty(nv, ow, nodes, i + 1, acc)

RECURSIVE collectNodes(_, _, _, _, _)
\* The while loop of collect over nodes[i..], with the accumulators str and
\* textNodes of the enclosing collectTextNodes carried in acc.
collectNodes(nv, ow, nodes, i, acc) ==
    IF i > Len(nodes) THEN acc
    ELSE LET node == nodes[i]
             value == nv[node]
             str2 == acc.str \o value
         IN IF IsTextNode(node)
            THEN IF value # <<>>
                 THEN collectNodes(nv, ow, nodes, i + 1,
                        [str |-> str2,
                         textNodes |-> Append(acc.textNodes,
                            [node |-> node, characterInterval |-> Len(str2)])])
                 ELSE collectNodes(nv, ow, nodes, i + 1, acc)
            ELSE IF hasChildNodes(node) /\ ow[node] # 0
                 THEN collectNodes(nv, ow, nodes, i + 1,
                        collectNodes(nv, ow, childNodes[node], 1, acc))
                 ELSE collectNodes(nv, ow, nodes, i + 1, acc)

collect(nv, ow, element, acc) == collectNodes(nv, ow, childNodes[element], 1, acc)

collectTextNodes(nv, ow, root) ==
    collect(nv, ow, root, [str |-> <<>>, textNodes |-> <<>>])

\* ----------------------------------------------------- createSearchPattern
RECURSIVE escape(_)
escape(str) ==
    IF str = <<>> THEN <<>>
    ELSE (IF Head(str) \in Reserved THEN <<BSL, Head(str)>> ELSE <<Head(str)>>)
         \o escape(Tail(str))

RECURSIVE LeadingRun(_, _)
\* Length of the longest prefix of s made of characters of class.
LeadingRun(s, class) ==
    IF s # <<>> /\ Head(s) \in class THEN 1 + LeadingRun(Tail(s), class) ELSE 0

RECURSIVE TrailingRun(_, _)
TrailingRun(s, class) ==
    IF s # <<>> /\ s[Len(s)] \in class
    THEN 1 + TrailingRun(SubSeq(s, 1, Len(s) - 1), class) ELSE 0

\* str.replace(/^[\s\u0A00]+|[\s\u0A00]+$/, ''): the expression has no g flag,
\* so only the leftmost match is replaced: the leading run when there is
\* one, the trailing run otherwise.
replaceEnds(s) ==
    IF LeadingRun(s, StripClass) > 0
    THEN SubSeq(s, LeadingRun(s, StripClass) + 1, Len(s))
    ELSE SubSeq(s, 1, Len(s) - TrailingRun(s, StripClass))

RECURSIVE splitAcc(_, _)
splitAcc(s, cur) ==
    IF s = <<>> THEN <<cur>>
    ELSE IF Head(s) \in StripClass
         THEN <<cur>> \o splitAcc(SubSeq(s, LeadingRun(s, StripClass) + 1, Len(s)), <<>>)
         ELSE splitAcc(Tail(s), Append(cur, Head(s)))

\* str.split(/[\s\u0A00]+/)
split(s) == splitAcc(s, <<>>)

RECURSIVE join(_, _)
join(tokens, sep) ==
    IF Len(tokens) = 1 THEN tokens[1]
    ELSE tokens[1] \o sep \o join(Tail(tokens), sep)

createSearchPattern(str) == join(split(replaceEnds(escape(str))), <<JOINER>>)

\* -------------------------------------------------------- RegExp and exec
RECURSIVE compile(_)
\* new RegExp(source): the atoms of the pattern.
compile(p) ==
    IF p = <<>> THEN <<>>
    ELSE IF Head(p) = BSL /\ Len(p) >= 2
         THEN <<[kind |-> "char", c |-> p[2]]>> \o compile(SubSeq(p, 3, Len(p)))
         ELSE IF Head(p) = JOINER
              THEN <<[kind |-> "ws", c |-> ""]>> \o compile(Tail(p))
              ELSE IF Head(p) = DOT
                   THEN <<[kind |-> "any", c |-> ""]>> \o compile(Tail(p))
                   ELSE <<[kind |-> "char", c |-> Head(p)]>> \o compile(Tail(p))

\* Canonicalize of the i flag, on the letters of the model.
Fold(c) == IF c = "A" THEN "a" ELSE c
CharEq(fl, a, b) == IF fl = "gi" THEN Fold(a) = Fold(b) ELSE a = b

RECURSIVE matchFrom(_, _, _, _, _)
RECURSIVE matchWs(_, _, _, _, _, _)
\* Backtracking match of items[k..] against str at 0-based position pos:
\* the end position of the match, or -1.
matchFrom(items, k, str, pos, fl) ==
    IF k > Len(items) THEN pos
    ELSE LET it == items[k]
         IN CASE it.kind = "ws" ->
                   matchWs(items, k, str, pos, fl,
                           LeadingRun(SubSeq(str, pos + 1, Len(str)), JoinClass))
              [] it.kind = "any" ->
                   IF pos < Len(str) THEN matchFrom(items, k + 1, str, pos + 1, fl)
                   ELSE -1
              [] OTHER ->
                   IF pos < Len(str) /\ CharEq(fl, str[pos + 1], it.c)
                   THEN matchFrom(items, k + 1, str, pos + 1, fl)
                   ELSE -1

\* The greedy quantifier +: the longest run first, then shorter ones.
matchWs(items, k, str, pos, fl, n) ==
    IF n = 0 THEN -1
    ELSE LET r == matchFrom(items, k + 1, str, pos + n, fl)
         IN IF r # -1 THEN r ELSE matchWs(items, k, str, pos, fl, n - 1)

NoMatch == [found |-> FALSE, index |-> 0, length |-> 0, lastIndex |-> 0]

RECURSIVE execFrom(_, _, _, _)
execFrom(items, fl, str, i) ==
    IF i > Len(str) THEN NoMatch
    ELSE LET e == matchFrom(items, 1, str, i, fl)
         IN IF e # -1
            THEN [found |-> TRUE, index |-> i, length |-> e - i, lastIndex |-> e]
            ELSE execFrom(items, fl, str, i + 1)

\* regexp.exec(str) of a global expression: the leftmost match at or after
\* regexp.lastIndex, with the value regexp.lastIndex has afterwards.
exec(source, fl, str, from) == execFrom(compile(source), fl, str, from)

\* ------------------------------------------------- getInfo, computeRange
Null == [node |-> "null", characterInterval |-> -1]

RECURSIVE getInfoFromGeq(_, _, _)
\* getInfo with >= for > in line 172.
getInfoFromGeq(nodes, i, characterIndex) ==
    IF i > Len(nodes) THEN Null
    ELSE IF nodes[i].characterInterval >= characterIndex THEN nodes[i]
         ELSE getInfoFromGeq(nodes, i + 1, characterIndex)

RECURSIVE getInfoFrom(_, _, _)
getInfoFrom(nodes, i, characterIndex) ==
    IF i > Len(nodes) THEN Null
    ELSE IF nodes[i].characterInterval > characterIndex THEN nodes[i]
         ELSE getInfoFrom(nodes, i + 1, characterIndex)

getInfo(characterIndex) == getInfoFrom(textNodes, 1, characterIndex)

\* Reading .node of null throws a TypeError.
computeRangeThrows(start, end) == getInfo(start) = Null \/ getInfo(end - 1) = Null

\* computeRange with endOffset taken from end - 1, the last character of
\* the match, as endContainer is.
computeRangeInclusive(start, end) ==
    LET startContainer == getInfo(start)
        endContainer == getInfo(end - 1)
        startNode == startContainer.node
        endNode == endContainer.node
    IN [startContainer |-> startNode,
        endContainer |-> endNode,
        startOffset |-> start - startContainer.characterInterval
                        + Len(nodeValue[startNode]),
        endOffset |-> (end - 1) - endContainer.characterInterval
                      + Len(nodeValue[endNode])]

computeRange(start, end) ==
    LET startContainer == getInfo(start)
        endContainer == getInfo(end - 1)
        startNode == startContainer.node
        endNode == endContainer.node
    IN [startContainer |-> startNode,
        endContainer |-> endNode,
        startOffset |-> start - startContainer.characterInterval
                        + Len(nodeValue[startNode]),
        endOffset |-> end - endContainer.characterInterval
                      + Len(nodeValue[endNode])]

\* ---------------------------------------------------------------- inputs
TextAlphabet == {"a", "A", SP}
WsTextAlphabet == {"a", "A", SP, NBSP}
MutTextAlphabet == {"a"}
PhraseAlphabet == {"a", SP}
\* Phrases with a reserved character, an upper-case letter, U+00A0, U+0A00.
SpecialPhrases == {<<DOT>>, <<"A">>, <<"a", SP, "A">>, <<"a", NBSP, "a">>,
                   <<"a", U0A00, "a">>, <<U0A00>>}
Phrases == StringsUpTo(PhraseAlphabet, MaxPhraseLen) \cup SpecialPhrases

TotalLen(nv) == Len(nv["t1"]) + Len(nv["t3"]) + Len(nv["t5"])

\* The state after new TextFinder(rootContainer), find not yet called.
Constructed ==
    /\ text = collectTextNodes(nodeValue, offsetWidth, rootContainer).str
    /\ textNodes = collectTextNodes(nodeValue, offsetWidth, rootContainer).textNodes
    /\ pc = "idle"
    /\ searchText = <<>>
    /\ flags = "gi"
    /\ regexp = <<>>
    /\ lastIndex = 0
    /\ lastMatch = NoMatch
    /\ ranges = <<>>
    /\ calls = <<>>
    /\ mutations = 0

Init ==
    /\ nodeValue \in [TextNodeIds -> StringsUpTo(TextAlphabet, MaxTextLen)]
    /\ TotalLen(nodeValue) <= MaxTextLen
    /\ offsetWidth \in [ElementIds -> {0, 1}]
    /\ offsetWidth["e6"] = 1
    /\ Constructed

\* One rendered text node, with both kinds of whitespace and both cases.
InitWS ==
    /\ \E value \in StringsUpTo(WsTextAlphabet, MaxWsTextLen) :
          nodeValue = [n \in TextNodeIds |-> IF n = "t1" THEN value ELSE <<>>]
    /\ offsetWidth = [n \in ElementIds |-> 1]
    /\ Constructed

InitMut ==
    /\ nodeValue \in [TextNodeIds -> StringsUpTo(MutTextAlphabet, MaxTextLen)]
    /\ TotalLen(nodeValue) <= MaxTextLen
    /\ offsetWidth = [n \in ElementIds |-> 1]
    /\ Constructed

\* ------------------------------------------------------------------ find
\* Line 129 with the bug of leaving the expression where the match began.
rewindToStart(lastIdx, length) == lastIdx - length

\* Line 129 left out: the scan goes on from the end of the match.
rewindNot(lastIdx, length) == lastIdx

\* Line 129, regexp.lastIndex -= length - 1: the value regexp.lastIndex has
\* when the text is searched again.
rewind(lastIdx, length) == lastIdx - (length - 1)

\* Lines 119-122: the pattern is built and the text searched from 0.
FindStart(phrase, caseSensitive) ==
    /\ pc = "idle"
    /\ LET fl == IF caseSensitive THEN "g" ELSE "gi"
           source == createSearchPattern(phrase)
           m == exec(source, fl, text, 0)
       IN /\ searchText' = phrase
          /\ flags' = fl
          /\ regexp' = source
          /\ lastMatch' = m
          /\ lastIndex' = m.lastIndex
    /\ ranges' = <<>>
    /\ calls' = <<>>
    /\ pc' = "loop"
    /\ UNCHANGED <<nodeValue, offsetWidth, text, textNodes, mutations>>

\* Lines 125-131: one iteration of the while loop.
FindStep ==
    /\ pc = "loop"
    /\ lastMatch.found
    /\ LET length == lastMatch.length
           start == lastIndex - length
           m == exec(regexp, flags, text, rewind(lastIndex, length))
       IN /\ calls' = Append(calls, [start |-> start, end |-> lastIndex])
          /\ IF computeRangeThrows(start, lastIndex)
             THEN /\ pc' = "thrown"
                  /\ UNCHANGED <<ranges, lastIndex, lastMatch>>
             ELSE /\ ranges' = Append(ranges, computeRange(start, lastIndex))
                  /\ lastMatch' = m
                  /\ lastIndex' = m.lastIndex
                  /\ pc' = "loop"
    /\ UNCHANGED <<nodeValue, offsetWidth, text, textNodes, searchText, flags,
                   regexp, mutations>>

\* Line 132: exec returned null, the array is returned.
FindReturn ==
    /\ pc = "loop"
    /\ ~lastMatch.found
    /\ pc' = "done"
    /\ UNCHANGED <<nodeValue, offsetWidth, text, textNodes, searchText, flags,
                   regexp, lastIndex, lastMatch, ranges, calls, mutations>>

\* The caller is done with the array find returned, or with the TypeError
\* it threw; the finder can be asked again.
Discard ==
    /\ pc \in {"done", "thrown"}
    /\ pc' = "idle"
    /\ searchText' = <<>>
    /\ flags' = "gi"
    /\ regexp' = <<>>
    /\ lastIndex' = 0
    /\ lastMatch' = NoMatch
    /\ ranges' = <<>>
    /\ calls' = <<>>
    /\ UNCHANGED <<nodeValue, offsetWidth, text, textNodes, mutations>>

\* The page changes the value of a text node between two calls of find:
\* it is emptied, loses its last character or gains one.
Mutate(n, value) ==
    /\ pc = "idle"
    /\ mutations < MaxMutations
    /\ value # nodeValue[n]
    /\ value \in {<<>>, SubSeq(nodeValue[n], 1, Len(nodeValue[n]) - 1),
                  Append(nodeValue[n], "a")}
    /\ nodeValue' = [nodeValue EXCEPT ![n] = value]
    /\ mutations' = mutations + 1
    /\ UNCHANGED <<offsetWidth, text, textNodes, pc, searchText, flags, regexp,
                   lastIndex, lastMatch, ranges, calls>>

Next ==
    \/ \E phrase \in Phrases, caseSensitive \in BOOLEAN : FindStart(phrase, caseSensitive)
    \/ FindStep
    \/ FindReturn
    \/ Discard

NextMut ==
    \/ Next
    \/ \E n \in TextNodeIds, value \in StringsUpTo(MutTextAlphabet, MaxTextLen + MaxMutations) :
          Mutate(n, value)

\* The tree is not changed after construction.
Spec == Init /\ [][Next]_vars
\* The same, on texts with both kinds of whitespace.
SpecWS == InitWS /\ [][Next]_vars
\* The page changes text nodes after construction.
SpecMut == InitMut /\ [][NextMut]_vars

\* =================================================================== claims
\* Helpers of the properties below (they model no code).
Recorded(n) == \E k \in 1..Len(textNodes) : textNodes[k].node = n
IndexOf(n) == CHOOSE k \in 1..Len(textNodes) : textNodes[k].node = n
\* The phrase of the current call has a character that is not whitespace.
HasWord == \E i \in 1..Len(searchText) : searchText[i] \notin WhiteSpaceS
OnlyWhitespace == \A i \in 1..Len(searchText) : searchText[i] \in WhiteSpaceS
InCall == pc \in {"loop", "done", "thrown"}

RECURSIVE SumLen(_)
\* Sum of the lengths of the values of the first k recorded text nodes.
SumLen(k) == IF k = 0 THEN 0 ELSE SumLen(k - 1) + Len(nodeValue[textNodes[k].node])

RECURSIVE Between(_, _)
\* The values of the recorded text nodes i..j, concatenated.
Between(i, j) ==
    IF i > j THEN <<>> ELSE nodeValue[textNodes[i].node] \o Between(i + 1, j)

\* ----------------------------------------------------------------------- C1
\* C1 as stated: two consecutive matches [s1, e1) and [s2, e2) of one call of
\* find never overlap, e1 <= s2.
C1_NoOverlap ==
    \A i \in 1..(Len(calls) - 1) : calls[i].end <= calls[i + 1].start

\* C1 amended: the matches of one call of find are in left-to-right order,
\* the starts of consecutive matches strictly increase and the ends do not
\* decrease, so no range is reported twice; consecutive matches may overlap.
C1_LeftToRight ==
    \A i \in 1..(Len(calls) - 1) :
        /\ calls[i].start < calls[i + 1].start
        /\ calls[i].end <= calls[i + 1].end

\* find returned two matches that overlap.
C1_Witness ==
    /\ pc = "done"
    /\ Len(ranges) >= 2
    /\ \E i \in 1..(Len(calls) - 1) : calls[i + 1].start < calls[i].end

\* ----------------------------------------------------------------------- C8
\* C8: no recorded text node was empty at construction, the k-th
\* characterInterval is the sum of the lengths of the first k recorded
\* values, hence strictly increasing and at least 1, and the length of the
\* flattened text is the last characterInterval (0 for an empty table).
C8_FragmentTable ==
    /\ \A k \in 1..Len(textNodes) :
          /\ nodeValue[textNodes[k].node] # <<>>
          /\ textNodes[k].characterInterval = SumLen(k)
          /\ textNodes[k].characterInterval >= 1
          /\ k > 1 => textNodes[k - 1].characterInterval
                      < textNodes[k].characterInterval
    /\ Len(text) = IF textNodes = <<>> THEN 0
                   ELSE textNodes[Len(textNodes)].characterInterval

\* An empty text node between two recorded ones, all elements rendered.
C8_Witness ==
    /\ Len(textNodes) = 2
    /\ nodeValue["t3"] = <<>>
    /\ \A e \in ElementIds : offsetWidth[e] # 0
    /\ Len(text) = MaxTextLen

\* ----------------------------------------------------------------------- C9
\* C9: the scan of find ends: a match found after another one starts
\* strictly further right, also after a match of length 0, and the loop
\* runs at most Len(text) + 1 times.
C9_ScanAdvances ==
    /\ [](Len(calls) <= Len(text) + 1)
    /\ [][(pc = "loop" /\ pc' = "loop" /\ lastMatch'.found)
            => lastMatch'.index > lastMatch.index]_vars

\* A match of length 0 was followed by another match.
C9_Witness ==
    /\ Len(calls) >= 2
    /\ calls[1].start = calls[1].end
    /\ calls[2].start > calls[1].start

\* ---------------------------------------------------------------------- C10
\* C10: on a tree not changed since construction and for a phrase with a
\* character that is not whitespace, both containers of a returned result are
\* recorded text nodes, the start container is not after the end container,
\* 0 <= startOffset < length of the start container, 0 < endOffset <= length
\* of the end container, and within one container endOffset - startOffset
\* is the length of the match.
C10_OffsetBounds ==
    (pc = "done" /\ HasWord /\ mutations = 0) =>
    \A i \in 1..Len(ranges) :
        LET r == ranges[i]
        IN /\ Recorded(r.startContainer)
           /\ Recorded(r.endContainer)
           /\ IndexOf(r.startContainer) <= IndexOf(r.endContainer)
           /\ 0 <= r.startOffset
           /\ r.startOffset < Len(nodeValue[r.startContainer])
           /\ 0 < r.endOffset
           /\ r.endOffset <= Len(nodeValue[r.endContainer])
           /\ r.startContainer = r.endContainer
                => r.endOffset - r.startOffset = calls[i].end - calls[i].start

\* A match that starts on the first character of the second recorded text
\* node and ends on the last character of a text node.
C10_Witness ==
    /\ pc = "done"
    /\ HasWord
    /\ \E i \in 1..Len(ranges) :
          /\ IndexOf(ranges[i].startContainer) = 2
          /\ ranges[i].startOffset = 0
          /\ ranges[i].endOffset = Len(nodeValue[ranges[i].endContainer])

\* ----------------------------------------------------------------------- C5
\* The text a result designates: the start container from startOffset, the
\* recorded text nodes between the two containers, the end container up to
\* endOffset.
Designated(r) ==
    LET si == IndexOf(r.startContainer)
        ei == IndexOf(r.endContainer)
        sv == nodeValue[r.startContainer]
        ev == nodeValue[r.endContainer]
    IN IF si = ei THEN SubSeq(sv, r.startOffset + 1, r.endOffset)
       ELSE SubSeq(sv, r.startOffset + 1, Len(sv)) \o Between(si + 1, ei - 1)
            \o SubSeq(ev, 1, r.endOffset)

\* C5: on a tree not changed since construction and for a phrase with a
\* character that is not whitespace, the text a returned result designates
\* is the matched part text[start, end) of the flattened text.
C5_RoundTrip ==
    (pc = "done" /\ HasWord /\ mutations = 0) =>
    \A i \in 1..Len(ranges) :
        /\ Recorded(ranges[i].startContainer)
        /\ Recorded(ranges[i].endContainer)
        /\ Designated(ranges[i]) = SubSeq(text, calls[i].start + 1, calls[i].end)

\* A match over three text nodes.
C5_Witness ==
    /\ pc = "done"
    /\ HasWord
    /\ \E i \in 1..Len(ranges) :
          /\ ranges[i].startContainer = "t1"
          /\ ranges[i].endContainer = "t5"
          /\ Recorded("t3")

\* ----------------------------------------------------------------------- C2
\* The phrase is made of tokens separated by single ordinary spaces.
SingleSpaced(p) ==
    /\ p # <<>>
    /\ p[1] # SP
    /\ p[Len(p)] # SP
    /\ \A i \in 1..Len(p) : p[i] \in StripClass => p[i] = SP
    /\ \A i \in 1..(Len(p) - 1) : ~(p[i] = SP /\ p[i + 1] = SP)

\* Two characters are the same letter, up to case when the search is not
\* case sensitive.
SameLetter(fl, a, b) == a = b \/ (fl = "gi" /\ {a, b} = {"a", "A"})

RECURSIVE OccurrenceEnds(_, _, _, _)
\* The positions where an occurrence of phrase p that starts at position j
\* of str can end: a space of p stands for any non-empty run of spaces and
\* non-breaking spaces of str, any other character for itself.
OccurrenceEnds(p, str, fl, j) ==
    IF p = <<>> THEN {j}
    ELSE IF Head(p) = SP
         THEN UNION {OccurrenceEnds(Tail(p), str, fl, j + n) :
                       n \in {m \in 1..(Len(str) - j) :
                                \A q \in 1..m : str[j + q] \in {SP, NBSP}}}
         ELSE IF j < Len(str) /\ SameLetter(fl, str[j + 1], Head(p))
              THEN OccurrenceEnds(Tail(p), str, fl, j + 1)
              ELSE {}

Occurrences(p, str, fl) ==
    {oc \in [start : 0..Len(str), end : 0..Len(str)] :
        oc.end \in OccurrenceEnds(p, str, fl, oc.start)}

RECURSIVE Collapse(_)
\* str with every run of spaces and non-breaking spaces made one space:
\* the same for all texts that differ only in these runs.
Collapse(str) ==
    IF str = <<>> THEN <<>>
    ELSE IF Head(str) \in {SP, NBSP}
         THEN <<SP>> \o Collapse(SubSeq(str, LeadingRun(str, {SP, NBSP}) + 1, Len(str)))
         ELSE <<Head(str)>> \o Collapse(Tail(str))

Trimmed(p) ==
    IF LeadingRun(p, WhiteSpaceS) = Len(p) THEN <<>>
    ELSE SubSeq(p, LeadingRun(p, WhiteSpaceS) + 1, Len(p) - TrailingRun(p, WhiteSpaceS))

\* C3: the pattern of a phrase is the pattern of the phrase without its
\* leading and trailing whitespace.
C3_StripsBothEnds ==
    InCall => regexp = createSearchPattern(Trimmed(searchText))

\* ----------------------------------------------------------------------- C4
\* C4: for a phrase that is empty or only whitespace, find returns an empty
\* array and does not throw.
C4_EmptyPhraseReturnsEmpty ==
    (InCall /\ OnlyWhitespace) => (pc # "thrown" /\ ranges = <<>>)

\* ----------------------------------------------------------------------- C6
\* Where the k-th recorded text node began in the flattened text.
SnapshotStart(n) ==
    IF IndexOf(n) = 1 THEN 0 ELSE textNodes[IndexOf(n) - 1].characterInterval

\* C6: whatever happened to the text nodes after construction, the results
\* of find are those of the tree as it was at construction: the offsets are
\* relative to where the containers began in the flattened text.
C6_Snapshot ==
    \A i \in 1..Len(ranges) :
        /\ ranges[i].startOffset
             = calls[i].start - SnapshotStart(ranges[i].startContainer)
        /\ ranges[i].endOffset
             = calls[i].end - SnapshotStart(ranges[i].endContainer)

\* ----------------------------------------------------------------------- C7
IsChild(e, n) == \E i \in 1..Len(childNodes[e]) : childNodes[e][i] = n

RECURSIVE Ancestors(_)
Ancestors(n) ==
    LET parents == {e \in ElementIds : IsChild(e, n)}
    IN parents \cup UNION {Ancestors(e) : e \in parents}

\* The text nodes in document order.
DocumentOrder == <<"t1", "t3", "t5">>

\* C7 as stated: no recorded text node lies below an element that is not
\* visible.
C7_NoneBelowInvisible ==
    \A k \in 1..Len(textNodes) :
        \A e \in Ancestors(textNodes[k].node) : offsetWidth[e] # 0

VisibleBelowRoot(n) ==
    \A e \in Ancestors(n) \ {rootContainer} : offsetWidth[e] # 0

\* C7 amended: on a tree not changed since construction, the recorded text
\* nodes are, in document order, the non-empty text nodes all of whose
\* ancestors other than the root are visible (the root itself is traversed
\* whether visible or not), and the results of find name no other node.
C7_PrunedBelowRoot ==
    mutations = 0 =>
        /\ [k \in 1..Len(textNodes) |-> textNodes[k].node]
             = SelectSeq(DocumentOrder,
                         LAMBDA n : nodeValue[n] # <<>> /\ VisibleBelowRoot(n))
        /\ \A i \in 1..Len(ranges) :
              /\ VisibleBelowRoot(ranges[i].startContainer)
              /\ VisibleBelowRoot(ranges[i].endContainer)

\* find returned a match on a tree where a text node with text lies below
\* an element that is not visible, under a visible parent.
C7_Witness ==
    /\ pc = "done"
    /\ ranges # <<>>
    /\ offsetWidth["e2"] # 0
    /\ offsetWidth["e4"] = 0
    /\ nodeValue["t5"] # <<>>
    /\ Recorded("t3")
====
